---- MODULE Spec2Model ----
(***************************************************************************)
(* A model of md_parse (src/parse.py): the line-driven, context-stack      *)
(* parsing automaton of Parser together with its Context variants, and     *)
(* the heading-hierarchy pass of ContentsParser.                           *)
(*                                                                         *)
(* A text line is a sequence of one-character strings.  A Python str kept  *)
(* inside an `elements` list is the record [str |-> chars]; a Block is a   *)
(* record with a `type` field and the keyword fields it was built with.    *)
(***************************************************************************)
EXTENDS Naturals, Integers, Sequences, FiniteSets, TLC

\* ------------------------------------------------------------------------
\* Bounds of the model
\* ------------------------------------------------------------------------
MaxLines == 3

MaxAst == 5

MaxLevel == 3

MaxText == 9

\* ------------------------------------------------------------------------
\* Program constants
\* ------------------------------------------------------------------------
\* HeadlineContext.match: a headline line is at most this long.
MaxHeadlineLen == 70

\* UListContext.handle: the column width of the unordered marker.
UMarkerWidth == 2

\* ------------------------------------------------------------------------
\* Python str operations on sequences of characters
\* ------------------------------------------------------------------------
Min(a, b) == IF a < b THEN a ELSE b

\* s[:n]
Take(s, n) == SubSeq(s, 1, Min(n, Len(s)))

\* s[n:]
Drop(s, n) == SubSeq(s, Min(n, Len(s)) + 1, Len(s))

\* n spaces
Spaces(n) == [i \in 1..n |-> " "]

\* s.startswith(p)
StartsWith(s, p) == Len(s) >= Len(p) /\ SubSeq(s, 1, Len(p)) = p

\* s.isspace(): non-empty and only whitespace
IsSpace(s) == Len(s) > 0 /\ \A i \in 1..Len(s) : s[i] = " "

\* the set of characters of s
Chars(s) == {s[i] : i \in 1..Len(s)}

\* s.lstrip(chars)
RECURSIVE LStripChars(_, _)
LStripChars(s, cs) ==
    IF s # <<>> /\ Head(s) \in cs THEN LStripChars(Tail(s), cs) ELSE s

\* s.rstrip(chars)
RECURSIVE RStripChars(_, _)
RStripChars(s, cs) ==
    IF s # <<>> /\ s[Len(s)] \in cs
    THEN RStripChars(SubSeq(s, 1, Len(s) - 1), cs)
    ELSE s

\* s.rstrip(), s.strip(): whitespace
RStrip(s) == RStripChars(s, {" "})

Strip(s) == LStripChars(RStrip(s), {" "})

\* str(n) for n >= 0
Digit(d) == CASE d = 0 -> "0" [] d = 1 -> "1" [] d = 2 -> "2" [] d = 3 -> "3"
              [] d = 4 -> "4" [] d = 5 -> "5" [] d = 6 -> "6" [] d = 7 -> "7"
              [] d = 8 -> "8" [] OTHER -> "9"

RECURSIVE Str(_)
Str(n) == IF n < 10 THEN <<Digit(n)>> ELSE Str(n \div 10) \o <<Digit(n % 10)>>

\* HLineContext.match: the line is three or more repetitions of c and nothing else
IsRun(s, c) == Len(s) >= 3 /\ \A i \in 1..Len(s) : s[i] = c

\* The fence marker of CodeContext.  A TLA+ string cannot hold the backquote
\* character: "~" stands for it throughout the model.
Fence == <<"~", "~", "~">>

\* ------------------------------------------------------------------------
\* Block (parse.py 5-21) and the Context variants (parse.py 24-246)
\* ------------------------------------------------------------------------
\* Block("paragraph", text=line)
Paragraph(text) == [type |-> "paragraph", apply_filter |-> TRUE, text |-> text]

\* Block('listitem', elements=self.li_eles)
ListItem(eles) == [type |-> "listitem", apply_filter |-> TRUE, elements |-> eles]

\* A Python str stored in an elements list (QuoteContext keeps raw strings).
PyStr(s) == [str |-> s]

\* Mutant of HeadlineMatch: the line has to be shorter than the limit.
HeadlineMatchShort(line) == StartsWith(line, <<"#">>) /\ ~(Len(line) >= MaxHeadlineLen)

\* The match predicates, in the order of Parser.contexts; TableContext and
\* MathContext never match.
HeadlineMatch(line) == StartsWith(line, <<"#">>) /\ ~(Len(line) > MaxHeadlineLen)

HLineMatch(line) == IsRun(line, "-") \/ IsRun(line, "=")

CodeMatch(line) == StartsWith(Strip(line), Fence)

UListMatch(line) == StartsWith(line, <<"-", " ">>)

OListMatch(line) == StartsWith(line, <<"1", ".", " ">>)

QuoteMatch(line) == StartsWith(line, <<">">>)

TableMatch(line) == FALSE

MathMatch(line) == FALSE

\* Parser.contexts: the registered context types, in match-attempt order.
Contexts == <<"Headline", "HLine", "Code", "UList", "OList", "Quote", "Table", "Math">>

Match(type, line) ==
    CASE type = "Headline" -> HeadlineMatch(line)
      [] type = "HLine" -> HLineMatch(line)
      [] type = "Code" -> CodeMatch(line)
      [] type = "UList" -> UListMatch(line)
      [] type = "OList" -> OListMatch(line)
      [] type = "Quote" -> QuoteMatch(line)
      [] type = "Table" -> TableMatch(line)
      [] OTHER -> MathMatch(line)

\* for context in contexts: if context.match(line): ...   The index of the
\* first registered type that matches, 0 when none does.
FirstMatch(line) ==
    IF \E i \in 1..Len(Contexts) : Match(Contexts[i], line)
    THEN CHOOSE i \in 1..Len(Contexts) :
            /\ Match(Contexts[i], line)
            /\ \A j \in 1..(i - 1) : ~Match(Contexts[j], line)
    ELSE 0

\* The classes derived from IndentContext: their constructor takes an indent.
\* The others inherit Context.__init__(self, parser), which takes none.
IndentTypes == {"Code", "UList", "OList", "Quote"}

\* context(parser) / context(parser, indent): the instance after __init__
\* and init().
NewContext(type, indent) ==
    CASE type = "Headline" -> [type |-> type, elements |-> <<>>, hcnt |-> 0]
      [] type = "Code" -> [type |-> type, elements |-> <<>>, indent |-> indent,
                           inside |-> FALSE, lang |-> <<>>]
      [] type = "UList" -> [type |-> type, elements |-> <<>>, indent |-> indent,
                            li_eles |-> <<>>]
      [] type = "OList" -> [type |-> type, elements |-> <<>>, indent |-> indent,
                            cnt |-> 1, li_eles |-> <<>>]
      [] type = "Quote" -> [type |-> type, elements |-> <<>>, indent |-> indent]
      [] OTHER -> [type |-> type, elements |-> <<>>]

\* Mutant of IndentOk: applyIndent cuts the columns off without looking at them.
IndentOkAny(c, line) == TRUE

\* IndentContext.applyIndent: whether the line carries the indent (else the
\* method raises) and the line without it.
IndentOk(c, line) == Take(line, c.indent) = Spaces(c.indent)

ApplyIndent(c, line) == Drop(line, c.indent)

\* Mutant of OnExit: the pending list item is flushed twice.
OnExitTwice(c) ==
    IF c.type \in {"UList", "OList"} /\ c.li_eles # <<>>
    THEN [c EXCEPT !.elements = @ \o <<ListItem(c.li_eles), ListItem(c.li_eles)>>]
    ELSE c

\* on_exit(): the list contexts flush the pending list item.
OnExit(c) ==
    IF c.type \in {"UList", "OList"} /\ c.li_eles # <<>>
    THEN [c EXCEPT !.elements = Append(@, ListItem(c.li_eles))]
    ELSE c

\* '\n'.join(elements) of a list of lines
RECURSIVE JoinLines(_)
JoinLines(ls) ==
    IF ls = <<>> THEN <<>>
    ELSE IF Len(ls) = 1 THEN ls[1].str
    ELSE ls[1].str \o <<"\n">> \o JoinLines(Tail(ls))

\* create(): the Block a context emits.
Create(c) ==
    CASE c.type = "Headline" ->
            [type |-> "headline", apply_filter |-> TRUE, text |-> c.text, hcnt |-> c.hcnt]
      [] c.type = "HLine" -> [type |-> "hline", apply_filter |-> TRUE]
      [] c.type = "Code" ->
            [type |-> "code", apply_filter |-> FALSE,
             text |-> JoinLines(c.elements), lang |-> c.lang]
      [] c.type = "UList" ->
            [type |-> "ulist", apply_filter |-> TRUE, elements |-> c.elements]
      [] c.type = "OList" ->
            [type |-> "olist", apply_filter |-> TRUE, elements |-> c.elements]
      [] c.type = "Quote" ->
            [type |-> "quote", apply_filter |-> TRUE, elements |-> c.elements]
      [] OTHER -> [type |-> "null", apply_filter |-> TRUE]

\* accept(block): the list contexts put a nested block into the current list
\* item, every other context into its elements.
Accept(c, block) ==
    IF c.type \in {"UList", "OList"}
    THEN [c EXCEPT !.li_eles = Append(@, block)]
    ELSE [c EXCEPT !.elements = Append(@, block)]

\* ------------------------------------------------------------------------
\* Parser (parse.py 249-309).  A parser value p is the record of the fields
\* the handlers touch: ccontexts, lineno, blocks, and exc, the exception
\* that is propagating ("" when none).
\* ------------------------------------------------------------------------
NoExc == ""

InvalidIndent == "Exception: Invalid indent"

TypeErr == "TypeError: __init__() takes 2 positional arguments but 3 were given"

Top(p) == p.ccontexts[Len(p.ccontexts)]

SetTop(p, c) == [p EXCEPT !.ccontexts[Len(p.ccontexts)] = c]

Raise(p, e) == [p EXCEPT !.exc = e]

\* Parser.nextLine
NextLine(p) == [p EXCEPT !.lineno = @ + 1]

\* Parser.contextEnter
ContextEnter(p, c) == [p EXCEPT !.ccontexts = Append(@, c)]

\* Mutant of ContextExit: the block of a popped context goes to the top-level
\* sequence even when a context is left to accept it.
ContextExitFlat(p) ==
    IF p.ccontexts = <<>> THEN p
    ELSE LET n == Len(p.ccontexts)
         IN [p EXCEPT !.ccontexts = SubSeq(p.ccontexts, 1, n - 1),
                      !.blocks = Append(@, Create(OnExit(p.ccontexts[n])))]

\* Parser.contextExit
ContextExit(p) ==
    IF p.ccontexts = <<>> THEN p
    ELSE LET n == Len(p.ccontexts)
             econtext == OnExit(p.ccontexts[n])
             rest == SubSeq(p.ccontexts, 1, n - 1)
         IN IF rest # <<>>
            THEN [p EXCEPT !.ccontexts =
                     [rest EXCEPT ![n - 1] = Accept(@, Create(econtext))]]
            ELSE [p EXCEPT !.ccontexts = rest,
                           !.blocks = Append(@, Create(econtext))]

\* Parser.handle with Parser.contextMatch: the line is offered to the
\* registered types; the first that matches is entered with context(self).
ParserHandle(p, line) ==
    LET i == FirstMatch(line)
    IN IF i # 0
       THEN ContextEnter(p, NewContext(Contexts[i], 0))
       ELSE NextLine([p EXCEPT !.blocks = Append(@, Paragraph(line))])

\* The number of leading '#' of a line
RECURSIVE HashRun(_)
HashRun(line) ==
    IF StartsWith(line, <<"#">>) THEN 1 + HashRun(Tail(line)) ELSE 0

\* HeadlineContext.handle
HeadlineHandle(p, line) ==
    LET c == Top(p)
        k == HashRun(line)
        c2 == [type |-> c.type, elements |-> c.elements, hcnt |-> c.hcnt + k,
               text |-> Strip(Drop(line, k))]
    IN ContextExit(NextLine(SetTop(p, c2)))

\* HLineContext.handle
HLineHandle(p, line) == ContextExit(NextLine(p))

\* CodeContext.handle
CodeHandle(p, line) ==
    LET c == Top(p)
        l1 == RStrip(ApplyIndent(c, line))
    IN IF ~IndentOk(c, line) THEN Raise(p, InvalidIndent)
       ELSE IF StartsWith(Strip(l1), Fence)
       THEN IF c.inside
            THEN NextLine(ContextExit(SetTop(p, [c EXCEPT !.inside = FALSE])))
            ELSE NextLine(SetTop(p, [c EXCEPT !.inside = TRUE,
                                              !.lang = Drop(Strip(l1), 3)]))
       ELSE NextLine(SetTop(p, [c EXCEPT !.elements = Append(@, PyStr(l1))]))

\* Mutant of EnterNested: the nested context is built with the indent of the
\* list it is nested in.
EnterNestedFlat(p, type, indent) ==
    IF type \in IndentTypes
    THEN ContextEnter(p, NewContext(type, Top(p).indent))
    ELSE Raise(p, TypeErr)

\* context(self.parser, indent) inside a list's handle: the classes that
\* do not derive from IndentContext take no indent and raise TypeError.
EnterNested(p, type, indent) ==
    IF type \in IndentTypes
    THEN ContextEnter(p, NewContext(type, indent))
    ELSE Raise(p, TypeErr)

\* The part of the two list handlers that starts a new list item:
\* the pending item is closed and the marker line opens the next one.
NewItem(c, text) ==
    [c EXCEPT !.elements = IF c.li_eles # <<>> THEN Append(@, ListItem(c.li_eles)) ELSE @,
              !.li_eles = <<Paragraph(text)>>]

\* UListContext.handle
UListHandle(p, line) ==
    LET c == Top(p)
        l1 == Drop(line, c.indent)
        l2 == RStripChars(LStripChars(l1, {" "}), {" "})
        i == FirstMatch(l2)
    IN IF c.indent # 0 /\ ~IsSpace(Take(line, c.indent)) THEN ContextExit(p)
       ELSE IF StartsWith(l1, <<"-", " ">>)
       THEN NextLine(SetTop(p, NewItem(c,
                RStripChars(LStripChars(l1, {"-", " "}), {" "}))))
       ELSE IF IsSpace(Take(l1, UMarkerWidth))
       THEN IF i # 0
            THEN EnterNested(p, Contexts[i], c.indent + UMarkerWidth)
            ELSE NextLine(SetTop(p, [c EXCEPT !.li_eles = Append(@, Paragraph(l2))]))
       ELSE ContextExit(p)

\* Mutant of Expect: the marker of the first item is expected on every line.
ExpectFirst(c) == <<"1", ".", " ">>

\* expect = str(self.cnt) + '. '
Expect(c) == Str(c.cnt) \o <<".", " ">>

\* OListContext.handle
OListHandle(p, line) ==
    LET c == Top(p)
        expect == Expect(c)
        l1 == Drop(line, c.indent)
        l2 == Drop(l1, Len(expect))
        i == FirstMatch(l2)
    IN IF c.indent # 0 /\ ~IsSpace(Take(line, c.indent)) THEN ContextExit(p)
       ELSE IF StartsWith(l1, expect)
       THEN NextLine(SetTop(p,
                [NewItem(c, RStrip(LStripChars(l1, Chars(expect))))
                    EXCEPT !.cnt = @ + 1]))
       ELSE IF IsSpace(Take(l1, Len(expect)))
       THEN IF i # 0
            THEN EnterNested(p, Contexts[i], c.indent + Len(expect))
            ELSE NextLine(SetTop(p, [c EXCEPT !.li_eles = Append(@, Paragraph(l2))]))
       ELSE ContextExit(p)

\* Mutant of QuoteHandle: the line that ends the quote is consumed with it.
QuoteHandleDrop(p, line) ==
    LET c == Top(p)
        l1 == RStrip(ApplyIndent(c, line))
    IN IF ~IndentOk(c, line) THEN Raise(p, InvalidIndent)
       ELSE IF ~StartsWith(l1, <<">">>) THEN NextLine(ContextExit(p))
       ELSE NextLine(SetTop(p,
                [c EXCEPT !.elements = Append(@, PyStr(LStripChars(l1, {">"})))]))

\* QuoteContext.handle
QuoteHandle(p, line) ==
    LET c == Top(p)
        l1 == RStrip(ApplyIndent(c, line))
    IN IF ~IndentOk(c, line) THEN Raise(p, InvalidIndent)
       ELSE IF ~StartsWith(l1, <<">">>) THEN ContextExit(p)
       ELSE NextLine(SetTop(p,
                [c EXCEPT !.elements = Append(@, PyStr(LStripChars(l1, {">"})))]))

\* src.rstrip().split('\n') on a text given as the sequence of its lines:
\* the trailing whitespace-only lines go (a newline is whitespace), the last
\* remaining line loses its trailing whitespace, and the empty text splits
\* into one empty line.
RECURSIVE RstripSplit(_)
RstripSplit(src) ==
    IF src = <<>> THEN << <<>> >>
    ELSE IF RStrip(src[Len(src)]) = <<>> THEN RstripSplit(SubSeq(src, 1, Len(src) - 1))
    ELSE [src EXCEPT ![Len(src)] = RStrip(@)]

\* ------------------------------------------------------------------------
\* Input texts
\* ------------------------------------------------------------------------
Pad(n, body) == Spaces(n) \o body

\* The item text of the n-th ordered line, so that the order of the items
\* of a list shows in its block.
Letter(n) == CASE n = 1 -> "a" [] n = 2 -> "b" [] n = 3 -> "c" [] n = 4 -> "d" [] OTHER -> "e"

\* "<n>. <letter>": an ordered-list marker line
OrdLine(n) == Str(n) \o <<".", " ", Letter(n)>>

ULine == <<"-", " ", "a">>

QLine == <<">", " ", "q">>

HeadLine == <<"#", " ", "h">>

RuleLine == <<"-", "-", "-">>

TextLine == <<"a">>

\* The lines a text starts constructs with at the left margin.
TopLines ==
    {OrdLine(n) : n \in 1..MaxLines}
        \cup {ULine, QLine, Fence, HeadLine, RuleLine, TextLine, <<>>}

\* The lines inside a list item: indented by the unordered marker width, or
\* by one column more (the ordered marker width, "1. ").
NestedLines ==
    {Pad(n, b) : n \in {UMarkerWidth, UMarkerWidth + 1},
                 b \in {ULine, OrdLine(1), QLine, Fence, HeadLine, TextLine}}

Lines == TopLines \cup NestedLines

\* The texts of at most n lines over a set of lines
Texts(ls, n) == UNION {[1..k -> ls] : k \in 1..n}

\* ------------------------------------------------------------------------
\* State
\* ------------------------------------------------------------------------
VARIABLES
    todo,       \* the texts the caller still passes to Parser.parse, in order
    pc,         \* "idle", "loop" (inside parse), "done" (returned), "raised"
    lines,      \* Parser.lines
    lineno,     \* Parser.lineno
    ccontexts,  \* Parser.ccontexts, bottom first
    blocks,     \* Parser.blocks
    exc,        \* the exception the last parse call raised, NoExc when none
    iter,       \* history: iterations of the main loop in the current call
    ndrain,     \* history: contexts popped by the drain loop in the current call
    seen,       \* history: the stack configurations the loop has been in at this cursor
    looping,    \* history: the loop is back in a configuration of seen
    ast,        \* the Block sequence given to ContentsParser.parse, as it was at the call
    heap,       \* the Block objects by identity: 1..Len(ast) are those of ast
    tpc,        \* ContentsParser.parse: "idle", "loop", "done"
    ti,         \* the number of elements of ast the for loop has visited
    toc,        \* the locals of ContentsParser.parse: cnt, s, roots, peeks, last
    rpc,        \* HtmlRenderer: "idle", "filter" (inside filter), "filtered", "rendered"
    ftext,      \* the text given to HtmlRenderer.filter
    data,       \* HtmlRenderer.filter: the local `data`
    fi,         \* the number of rules of self.filters the for loop has applied
    html        \* the string HtmlRenderer.render returned

pvars == <<todo, pc, lines, lineno, ccontexts, blocks, exc, iter, ndrain, seen, looping>>

tvars == <<ast, heap, tpc, ti, toc>>

rvars == <<rpc, ftext, data, fi, html>>

vars == <<pvars, tvars, rvars>>

\* The fields of a context that its handle method branches on (everything
\* but the accumulated elements and the pending list item).
Ctl(c) ==
    CASE c.type = "Code" -> <<c.type, c.indent, c.inside>>
      [] c.type = "OList" -> <<c.type, c.indent, c.cnt>>
      [] c.type \in {"UList", "Quote"} -> <<c.type, c.indent>>
      [] OTHER -> <<c.type>>

Config(st) == [i \in 1..Len(st) |-> Ctl(st[i])]

Self == [ccontexts |-> ccontexts, lineno |-> lineno, blocks |-> blocks, exc |-> NoExc]

\* Parser.__init__ followed by no call yet.
InitParser ==
    /\ pc = "idle"
    /\ lines = <<>>
    /\ lineno = 0
    /\ ccontexts = <<>>
    /\ blocks = <<>>
    /\ exc = NoExc
    /\ iter = 0
    /\ ndrain = 0
    /\ seen = {}
    /\ looping = FALSE

\* No block sequence handed to ContentsParser.
InitToc ==
    /\ ast = <<>>
    /\ heap = <<>>
    /\ tpc = "idle"
    /\ ti = 0
    /\ toc = [cnt |-> 1, s |-> <<>>, roots |-> <<>>, peeks |-> 0, last |-> 0]

\* HtmlRenderer.__init__ followed by no call yet.
InitRenderer ==
    /\ rpc = "idle"
    /\ ftext = <<>>
    /\ data = <<>>
    /\ fi = 0
    /\ html = <<>>

Init ==
    /\ todo \in {<<t>> : t \in Texts(Lines, MaxLines)}
    /\ InitParser
    /\ InitToc
    /\ InitRenderer

\* Parser.parse, up to the first test of the while loop.
ParseCall ==
    /\ pc \in {"idle", "done", "raised"}
    /\ todo # <<>>
    /\ todo' = Tail(todo)
    /\ lineno' = 0
    /\ lines' = RstripSplit(Head(todo))
    /\ pc' = "loop"
    /\ exc' = NoExc
    /\ iter' = 0
    /\ ndrain' = 0
    /\ seen' = {}
    /\ looping' = FALSE
    /\ UNCHANGED <<ccontexts, blocks>>
    /\ UNCHANGED tvars
    /\ UNCHANGED rvars

InLoop == pc = "loop" /\ lineno < Len(lines) /\ ~looping

\* line = self.lines[self.lineno]; ... handle(line.rstrip())
CurLine == RStrip(lines[lineno + 1])

\* The state after one iteration of the main loop that left the parser as r.
Commit(r) ==
    /\ ccontexts' = r.ccontexts
    /\ lineno' = r.lineno
    /\ blocks' = r.blocks
    /\ exc' = r.exc
    /\ pc' = IF r.exc # NoExc THEN "raised" ELSE "loop"
    /\ iter' = iter + 1
    /\ seen' = IF r.lineno = lineno THEN seen \cup {Config(ccontexts)} ELSE {}
    /\ looping' = (r.exc = NoExc /\ r.lineno = lineno
                    /\ Config(r.ccontexts) \in seen \cup {Config(ccontexts)})
    /\ UNCHANGED <<todo, lines, ndrain>>
    /\ UNCHANGED tvars
    /\ UNCHANGED rvars

\* One iteration with no open context: Parser.handle
TopStep ==
    /\ InLoop
    /\ ccontexts = <<>>
    /\ Commit(ParserHandle(Self, CurLine))

\* One iteration with an open context on top: self.ccontexts[-1].handle,
\* one action per context class.
OnTop(type) == InLoop /\ ccontexts # <<>> /\ Top(Self).type = type

HeadlineStep == OnTop("Headline") /\ Commit(HeadlineHandle(Self, CurLine))

HLineStep == OnTop("HLine") /\ Commit(HLineHandle(Self, CurLine))

CodeStep == OnTop("Code") /\ Commit(CodeHandle(Self, CurLine))

UListStep == OnTop("UList") /\ Commit(UListHandle(Self, CurLine))

OListStep == OnTop("OList") /\ Commit(OListHandle(Self, CurLine))

QuoteStep == OnTop("Quote") /\ Commit(QuoteHandle(Self, CurLine))

AtEnd == pc = "loop" /\ lineno >= Len(lines)

\* while self.ccontexts: self.contextExit()
Drain ==
    /\ AtEnd
    /\ ccontexts # <<>>
    /\ LET r == ContextExit(Self)
       IN /\ ccontexts' = r.ccontexts
          /\ blocks' = r.blocks
    /\ ndrain' = ndrain + 1
    /\ UNCHANGED <<todo, pc, lines, lineno, exc, iter, seen, looping>>
    /\ UNCHANGED tvars
    /\ UNCHANGED rvars

\* return self.blocks
Return ==
    /\ AtEnd
    /\ ccontexts = <<>>
    /\ pc' = "done"
    /\ UNCHANGED <<todo, lines, lineno, ccontexts, blocks, exc, iter, ndrain, seen, looping>>
    /\ UNCHANGED tvars
    /\ UNCHANGED rvars

Next ==
    \/ ParseCall
    \/ TopStep
    \/ HeadlineStep
    \/ HLineStep
    \/ CodeStep
    \/ UListStep
    \/ OListStep
    \/ QuoteStep
    \/ Drain
    \/ Return

Spec == Init /\ [][Next]_vars

\* Two calls of parse on one Parser instance: a text of lists, fences, quotes
\* and single-line constructs, then a one-line text.
ReuseLines ==
    {ULine, OrdLine(1), QLine, HeadLine, RuleLine, TextLine,
     Pad(UMarkerWidth, Fence), Pad(UMarkerWidth, QLine)}

InitReuse ==
    /\ todo \in {<<t, u>> : t \in Texts(ReuseLines, MaxLines), u \in Texts(ReuseLines, 1)}
    /\ InitParser
    /\ InitToc
    /\ InitRenderer

SpecReuse == InitReuse /\ [][Next]_vars

\* ------------------------------------------------------------------------
\* ContentsParser (parse.py 397-431) and the anchor of HtmlRenderer.render_headline
\* (parse.py 346-350).  Objects live in heap and are referred to by their
\* index; `peeks` refers to a list: 0 is `roots`, n > 0 the children list of
\* object n.  None is 0.
\* ------------------------------------------------------------------------
\* hasattr(block, name): a keyword field or an attribute set on the object
HasAttr(b, name) == name \in DOMAIN b

\* setattr(block, name, value)
SetAttr(b, name, value) == (name :> value) @@ b

\* The blocks Parser.parse puts in the top-level sequence, as far as
\* ContentsParser reads them: headlines of some level and other blocks.
HeadlineBlock(level, i) ==
    [type |-> "headline", apply_filter |-> TRUE, text |-> <<"h">> \o Str(i), hcnt |-> level]

OtherBlock(i) == Paragraph(<<"p">> \o Str(i))

AstOfLevels(levels) ==
    [i \in 1..Len(levels) |->
        IF levels[i] = 0 THEN OtherBlock(i) ELSE HeadlineBlock(levels[i], i)]

\* Mutant of Derive: no copy is made, the input block itself becomes the node.
DeriveShared(h, id, cnt) ==
    [heap |-> [h EXCEPT ![id] = SetAttr(SetAttr(@, "anchor", cnt), "children", <<>>)],
     e |-> id]

\* e = Block(tp='headline', text=e.text, hcnt=e.hcnt); e.anchor = cnt;
\* e.children = []: the heap with the new object, which gets the next index.
Derive(h, id, cnt) ==
    LET e == [type |-> "headline", apply_filter |-> TRUE,
              text |-> h[id].text, hcnt |-> h[id].hcnt]
    IN [heap |-> Append(h, SetAttr(SetAttr(e, "anchor", cnt), "children", <<>>)),
        e |-> Len(h) + 1]

\* peeks.append(e)
PeeksAppend(t, h, e) ==
    IF t.peeks = 0
    THEN [t |-> [t EXCEPT !.roots = Append(@, e)], heap |-> h]
    ELSE [t |-> t, heap |-> [h EXCEPT ![t.peeks].children = Append(@, e)]]

\* Mutant of PopAncestors: an ancestor of the same level is kept.
RECURSIVE PopAncestorsStrict(_, _, _)
PopAncestorsStrict(s, h, level) ==
    IF s # <<>> /\ h[s[Len(s)]].hcnt > level
    THEN PopAncestorsStrict(SubSeq(s, 1, Len(s) - 1), h, level)
    ELSE s

\* while s and s[-1].hcnt >= e.hcnt: s.pop()
RECURSIVE PopAncestors(_, _, _)
PopAncestors(s, h, level) ==
    IF s # <<>> /\ h[s[Len(s)]].hcnt >= level
    THEN PopAncestors(SubSeq(s, 1, Len(s) - 1), h, level)
    ELSE s

\* Mutant of NextAnchor: the counter is not advanced.
NextAnchorStuck(cnt) == cnt

\* cnt += 1
NextAnchor(cnt) == cnt + 1

\* The body of the for loop for a headline block: the record of the locals
\* and the heap after it.
VisitHeadline(t, h, id) ==
    LET h1 == [h EXCEPT ![id] = SetAttr(@, "anchor", t.cnt)]
        d == Derive(h1, id, t.cnt)
        e == d.e
        h2 == d.heap
        t1 == [t EXCEPT !.cnt = NextAnchor(@)]
        r == IF t.last = 0 \/ h2[t.last].hcnt = h2[e].hcnt
             THEN PeeksAppend(t1, h2, e)
             ELSE IF h2[t.last].hcnt < h2[e].hcnt
             THEN [t |-> [t1 EXCEPT !.s = Append(@, t.last), !.peeks = t.last],
                   heap |-> [h2 EXCEPT ![t.last].children = Append(@, e)]]
             ELSE LET s1 == PopAncestors(t.s, h2, h2[e].hcnt)
                      t2 == [t1 EXCEPT !.s = s1,
                                       !.peeks = IF s1 = <<>> THEN 0 ELSE s1[Len(s1)]]
                  IN PeeksAppend(t2, h2, e)
    IN [t |-> [r.t EXCEPT !.last = e], heap |-> r.heap]

\* HtmlRenderer.render_headline: the name attribute it puts on the heading,
\* as a list of zero or one anchors.
HeadlineName(b) == IF HasAttr(b, "anchor") THEN <<b.anchor>> ELSE <<>>

InitTocCall ==
    /\ \E ls \in UNION {[1..k -> 0..MaxLevel] : k \in 1..MaxAst} : ast = AstOfLevels(ls)
    /\ heap = ast
    /\ tpc = "idle"
    /\ ti = 0
    /\ toc = [cnt |-> 1, s |-> <<>>, roots |-> <<>>, peeks |-> 0, last |-> 0]
    /\ todo = <<>>
    /\ InitParser
    /\ InitRenderer

\* ContentsParser.parse up to the for loop
TocCall ==
    /\ tpc = "idle"
    /\ ast # <<>>
    /\ tpc' = "loop"
    /\ ti' = 0
    /\ toc' = [cnt |-> 1, s |-> <<>>, roots |-> <<>>, peeks |-> 0, last |-> 0]
    /\ UNCHANGED <<ast, heap>>
    /\ UNCHANGED pvars
    /\ UNCHANGED rvars

\* for e in ast, e a headline
TocHeadline ==
    /\ tpc = "loop"
    /\ ti < Len(ast)
    /\ heap[ti + 1].type = "headline"
    /\ LET r == VisitHeadline(toc, heap, ti + 1)
       IN /\ toc' = r.t
          /\ heap' = r.heap
    /\ ti' = ti + 1
    /\ UNCHANGED <<ast, tpc>>
    /\ UNCHANGED pvars
    /\ UNCHANGED rvars

\* for e in ast, e anything else
TocSkip ==
    /\ tpc = "loop"
    /\ ti < Len(ast)
    /\ heap[ti + 1].type # "headline"
    /\ ti' = ti + 1
    /\ UNCHANGED <<ast, heap, tpc, toc>>
    /\ UNCHANGED pvars
    /\ UNCHANGED rvars

\* return roots
TocReturn ==
    /\ tpc = "loop"
    /\ ti >= Len(ast)
    /\ tpc' = "done"
    /\ UNCHANGED <<ast, heap, ti, toc>>
    /\ UNCHANGED pvars
    /\ UNCHANGED rvars

NextToc ==
    \/ TocCall
    \/ TocHeadline
    \/ TocSkip
    \/ TocReturn

SpecToc == InitTocCall /\ [][NextToc]_vars

\* ------------------------------------------------------------------------
\* HtmlRenderer (parse.py 312-395).  A rendered string is a sequence of
\* pieces: the characters that come from the source text, one-character
\* strings as before, and the literal parts of the templates, each kept
\* whole as one string.  No literal part holds a character with which a
\* pattern of self.filters starts, so a match never begins or ends inside
\* one, and to the group of a pattern a literal part is one or more
\* characters like any other.
\* ------------------------------------------------------------------------
\* One (pattern, replacement) pair of self.filters.  Every pattern is a
\* literal, a lazy non-empty group, a literal, and for some a second group
\* and a third literal: lits are the literals.  In the last pattern the
\* literals are the end-of-text anchor.  The replacement is a sequence of
\* literal parts [t |-> pieces] and group references [g |-> n].
Rule(lits, repl) == [lits |-> lits, anchor |-> FALSE, repl |-> repl]

ImgRule ==
    Rule(<< <<"!", "[", "a", "l", "t", " ">>, <<"]", "(">>, <<")">> >>,
         << [t |-> <<"<img alt=\"">>], [g |-> 1], [t |-> <<"\" src=\"">>], [g |-> 2],
            [t |-> <<"\" />">>] >>)

SelfLinkRule ==
    Rule(<< <<"[", "]", "(">>, <<")">> >>,
         << [t |-> <<"<a href=\"">>], [g |-> 1], [t |-> <<"\">">>], [g |-> 1],
            [t |-> <<"</a>">>] >>)

LinkRule ==
    Rule(<< <<"[">>, <<"]", "(">>, <<")">> >>,
         << [t |-> <<"<a href=\"">>], [g |-> 2], [t |-> <<"\">">>], [g |-> 1],
            [t |-> <<"</a>">>] >>)

EmRule ==
    Rule(<< <<"*", "*">>, <<"*", "*">> >>,
         << [t |-> <<"<span class=\"em\">">>], [g |-> 1], [t |-> <<"</span>">>] >>)

ItaRule ==
    Rule(<< <<"*">>, <<"*">> >>,
         << [t |-> <<"<span class=\"ita\">">>], [g |-> 1], [t |-> <<"</span>">>] >>)

TickRule ==
    Rule(<< <<"~">>, <<"~">> >>,
         << [t |-> <<" <code>">>], [g |-> 1], [t |-> <<"</code> ">>] >>)

DollarRule ==
    [lits |-> << <<>>, <<>> >>, anchor |-> TRUE, repl |-> << [g |-> 1] >>]

\* Mutant of Filters: the single-asterisk rule stands before the
\* double-asterisk rule.
FiltersItaFirst ==
    <<ImgRule, SelfLinkRule, LinkRule, ItaRule, EmRule, TickRule, DollarRule>>

\* self.filters, in list order
Filters ==
    <<ImgRule, SelfLinkRule, LinkRule, EmRule, ItaRule, TickRule, DollarRule>>

\* Literal k of the rule stands at position i of s (the anchor: i is the
\* end of s; the texts filtered hold no line break).
At(rule, k, s, i) ==
    IF rule.anchor THEN i = Len(s) + 1
    ELSE /\ i + Len(rule.lits[k]) - 1 <= Len(s)
         /\ SubSeq(s, i, i + Len(rule.lits[k]) - 1) = rule.lits[k]

\* The width of literal k
Width(rule, k) == IF rule.anchor THEN 0 ELSE Len(rule.lits[k])

\* The least position from `from` on at which literal k stands, 0 if none.
Find(rule, k, s, from) ==
    LET ps == {i \in from..(Len(s) + 1) : At(rule, k, s, i)}
    IN IF ps = {} THEN 0 ELSE CHOOSE i \in ps : \A j \in ps : i <= j

\* The match of the pattern that starts at position i, if there is one: a
\* lazy group takes the fewest characters, at least one, after which the
\* rest of the pattern matches; what follows a group only gets harder to
\* match as the group grows, so each group ends at the first occurrence of
\* the literal after it.
MatchAt(rule, s, i) ==
    LET a == i + Width(rule, 1)
        j == Find(rule, 2, s, a + 1)
        b == j + Width(rule, 2)
        k == IF j # 0 /\ Len(rule.lits) = 3 THEN Find(rule, 3, s, b + 1) ELSE 0
    IN IF ~At(rule, 1, s, i) \/ j = 0 THEN [ok |-> FALSE]
       ELSE IF Len(rule.lits) = 2
       THEN [ok |-> TRUE, groups |-> <<SubSeq(s, a, j - 1)>>, end |-> b]
       ELSE IF k = 0 THEN [ok |-> FALSE]
       ELSE [ok |-> TRUE, groups |-> <<SubSeq(s, a, j - 1), SubSeq(s, b, k - 1)>>,
             end |-> k + Width(rule, 3)]

\* The replacement template with the groups of a match filled in.
RECURSIVE Expand(_, _)
Expand(repl, groups) ==
    IF repl = <<>> THEN <<>>
    ELSE (IF "g" \in DOMAIN Head(repl) THEN groups[Head(repl).g] ELSE Head(repl).t)
            \o Expand(Tail(repl), groups)

\* pat.sub(repl, data): the leftmost match is replaced and the search goes
\* on behind it, to the end of the text.
RECURSIVE Sub(_, _)
Sub(rule, s) ==
    LET starts == {i \in 1..(Len(s) + 1) : MatchAt(rule, s, i).ok}
        i == CHOOSE x \in starts : \A y \in starts : x <= y
        m == MatchAt(rule, s, i)
    IN IF starts = {} THEN s
       ELSE SubSeq(s, 1, i - 1) \o Expand(rule.repl, m.groups)
                \o Sub(rule, SubSeq(s, m.end, Len(s)))

\* HtmlRenderer.filter as a function: the rules from the i-th on, in order.
RECURSIVE FilterFrom(_, _)
FilterFrom(i, s) ==
    IF i > Len(Filters) THEN s ELSE FilterFrom(i + 1, Sub(Filters[i], s))

Filter(s) == FilterFrom(1, s)

\* sep.join(elements) of a list of strs
RECURSIVE Join(_, _)
Join(sep, ls) ==
    IF ls = <<>> THEN <<>>
    ELSE IF Len(ls) = 1 THEN ls[1].str
    ELSE ls[1].str \o sep \o Join(sep, Tail(ls))

\* isinstance(ele, Block)
IsBlock(ele) == "type" \in DOMAIN ele

\* Mutant of RenderCode: the code text goes through the inline filters.
RenderCodeFiltered(block) ==
    <<"<pre><code class=\"hljs ">> \o block.lang \o <<"\">">> \o Filter(block.text)
        \o <<"</code></pre>">>

\* HtmlRenderer.render_code
RenderCode(block) ==
    <<"<pre><code class=\"hljs ">> \o block.lang \o <<"\">">> \o block.text
        \o <<"</code></pre>">>

\* HtmlRenderer.render_headline
RenderHeadline(block) ==
    IF HasAttr(block, "anchor")
    THEN <<"<h">> \o Str(block.hcnt) \o <<"><a name=\"">> \o Str(block.anchor) \o <<"\">">>
            \o Filter(block.text) \o <<"</a></h">> \o Str(block.hcnt) \o <<">">>
    ELSE <<"<h">> \o Str(block.hcnt) \o <<">">> \o Filter(block.text)
            \o <<"</h">> \o Str(block.hcnt) \o <<">">>

\* HtmlRenderer.render_paragraph
RenderParagraph(block) == <<"<p>">> \o Filter(block.text) \o <<"</p>">>

\* HtmlRenderer.render_quote
RenderQuote(block) ==
    <<"<blockquote><p>">> \o Filter(Join(<<"</p><p>">>, block.elements))
        \o <<"</p></blockquote>">>

\* HtmlRenderer._render and the render_ methods of the container blocks;
\* a type with no method renders as the empty string (rdefault).
RECURSIVE RenderBlock(_)
RenderEach(eles) ==
    LET RECURSIVE Go(_)
        Go(es) == IF es = <<>> THEN <<>>
                  ELSE (IF IsBlock(Head(es)) THEN RenderBlock(Head(es)) ELSE Head(es).str)
                          \o Go(Tail(es))
    IN Go(eles)

RenderBlock(block) ==
    CASE block.type = "headline" -> RenderHeadline(block)
      [] block.type = "hline" -> <<"<hr />">>
      [] block.type = "code" -> RenderCode(block)
      [] block.type = "paragraph" -> RenderParagraph(block)
      [] block.type = "quote" -> RenderQuote(block)
      [] block.type = "olist" -> <<"<ol>">> \o RenderEach(block.elements) \o <<"</ol>">>
      [] block.type = "ulist" -> <<"<ul>">> \o RenderEach(block.elements) \o <<"</ul>">>
      [] block.type = "listitem" -> <<"<li>">> \o RenderEach(block.elements) \o <<"</li>">>
      [] OTHER -> <<>>

\* HtmlRenderer.render
Render(bs) == RenderEach(bs)

\* The renderer is handed the blocks a parse call returned.
RenderCall ==
    /\ pc = "done"
    /\ rpc = "idle"
    /\ html' = Render(blocks)
    /\ rpc' = "rendered"
    /\ UNCHANGED <<ftext, data, fi>>
    /\ UNCHANGED pvars
    /\ UNCHANGED tvars

\* HtmlRenderer.filter up to the for loop
FilterCall ==
    /\ rpc = "idle"
    /\ ftext # <<>>
    /\ data' = ftext
    /\ fi' = 0
    /\ rpc' = "filter"
    /\ UNCHANGED <<ftext, html>>
    /\ UNCHANGED pvars
    /\ UNCHANGED tvars

\* for pat, repl in self.filters: data = pat.sub(repl, data)
FilterRule ==
    /\ rpc = "filter"
    /\ fi < Len(Filters)
    /\ data' = Sub(Filters[fi + 1], data)
    /\ fi' = fi + 1
    /\ UNCHANGED <<rpc, ftext, html>>
    /\ UNCHANGED pvars
    /\ UNCHANGED tvars

\* return data
FilterReturn ==
    /\ rpc = "filter"
    /\ fi >= Len(Filters)
    /\ rpc' = "filtered"
    /\ UNCHANGED <<ftext, data, fi, html>>
    /\ UNCHANGED pvars
    /\ UNCHANGED tvars

\* Texts for the rules of the single constructs: a fence with a language
\* tag and lines with markup for its inside, at the left margin and inside
\* a list item, and headline candidates at the length limit.
FenceLang == Fence \o <<"p", "y">>

BoldLine == <<"*", "*", "x", "*", "*">>

\* A line of n characters: a '#' run of k, then filling
HashLine(k, n) == [i \in 1..n |-> IF i <= k THEN "#" ELSE "x"]

FormLines ==
    {Fence, FenceLang, BoldLine, HeadLine, ULine, OrdLine(1), QLine, RuleLine,
     HashLine(1, MaxHeadlineLen), HashLine(2, MaxHeadlineLen) \o <<" ">>,
     HashLine(1, MaxHeadlineLen + 1),
     Pad(UMarkerWidth, Fence), Pad(UMarkerWidth, BoldLine)}

InitForms ==
    /\ todo \in {<<t>> : t \in Texts(FormLines, MaxLines)}
    /\ InitParser
    /\ InitToc
    /\ InitRenderer

NextForms ==
    \/ Next
    \/ RenderCall

SpecForms == InitForms /\ [][NextForms]_vars

\* Texts of list lines: items whose text starts with characters of the
\* marker, and list lines indented by one and by two marker widths.
DashItem == <<"-", " ", "-", "5", " ", "x">>

DotItem == <<"1", ".", " ", "1", ".", "5", " ", "l">>

ItemLines ==
    {ULine, OrdLine(1), OrdLine(2), DashItem, DotItem, QLine, Fence, HeadLine, RuleLine,
     TextLine, Pad(UMarkerWidth, ULine), Pad(2 * UMarkerWidth, ULine),
     Pad(UMarkerWidth + 1, OrdLine(1))}

InitItems ==
    /\ todo \in {<<t>> : t \in Texts(ItemLines, MaxLines)}
    /\ InitParser
    /\ InitToc
    /\ InitRenderer

SpecItems == InitItems /\ [][Next]_vars

\* The texts handed to HtmlRenderer.filter: every text of at most MaxText
\* characters made of asterisks and letters (the n-th letter of a text is
\* Letter(n)), and texts with the image, link and code-span markup.
StarText(mask) ==
    [i \in 1..Len(mask) |->
        IF mask[i] THEN "*" ELSE Letter(Cardinality({j \in 1..i : ~mask[j]}))]

StarTexts == {StarText(m) : m \in UNION {[1..k -> BOOLEAN] : k \in 1..MaxText}}

ImgText == <<"!", "[", "a", "l", "t", " ", "a", "]", "(", "b", ")">>

LinkText == <<"[", "*", "a", "*", "]", "(", "b", ")">>

SelfLinkText == <<"[", "]", "(", "b", ")">>

TickText == <<"~", "a", "~">>

MarkupTexts ==
    {t \o u : t \in {ImgText, LinkText, SelfLinkText, TickText},
              u \in {<<>>, ImgText, LinkText, <<"*", "*", "a", "*", "*">>}}

InitFilter ==
    /\ ftext \in StarTexts \cup MarkupTexts
    /\ rpc = "idle"
    /\ data = <<>>
    /\ fi = 0
    /\ html = <<>>
    /\ todo = <<>>
    /\ InitParser
    /\ InitToc

NextFilter ==
    \/ FilterCall
    \/ FilterRule
    \/ FilterReturn

SpecFilter == InitFilter /\ [][NextFilter]_vars

\* ------------------------------------------------------------------------
\* Claims about Parser.parse
\* ------------------------------------------------------------------------
\* The block type each context class creates.
BlockTypeOf(ctype) ==
    CASE ctype = "Headline" -> "headline"
      [] ctype = "HLine" -> "hline"
      [] ctype = "Code" -> "code"
      [] ctype = "UList" -> "ulist"
      [] ctype = "OList" -> "olist"
      [] ctype = "Quote" -> "quote"
      [] OTHER -> "null"

\* Where a context keeps the blocks its nested contexts hand it.
Received(c) == IF c.type \in {"UList", "OList"} THEN c.li_eles ELSE c.elements

Depth == Len(ccontexts)

\* The step pops the top context and hands exactly one block of its class
\* to the context below it, or to the top-level sequence when none is left;
\* nothing else on the stack or in the top-level sequence changes.
PopsOneAndDelivers ==
    /\ Len(ccontexts') = Depth - 1
    /\ \A i \in 1..(Depth - 2) : ccontexts'[i] = ccontexts[i]
    /\ IF Depth > 1
       THEN /\ blocks' = blocks
            /\ Len(Received(ccontexts'[Depth - 1])) = Len(Received(ccontexts[Depth - 1])) + 1
            /\ SubSeq(Received(ccontexts'[Depth - 1]), 1, Len(Received(ccontexts[Depth - 1])))
                    = Received(ccontexts[Depth - 1])
            /\ Received(ccontexts'[Depth - 1])[Len(Received(ccontexts[Depth - 1])) + 1].type
                    = BlockTypeOf(ccontexts[Depth].type)
       ELSE /\ Len(blocks') = Len(blocks) + 1
            /\ SubSeq(blocks', 1, Len(blocks)) = blocks
            /\ blocks'[Len(blocks) + 1].type = BlockTypeOf(ccontexts[Depth].type)

\* C1 (as claimed): parse terminates on every finite text.  The handlers are
\* deterministic in the stack configuration and the current line, so parse
\* fails to terminate exactly when its loop comes back, at an unchanged
\* cursor, to a configuration it has already been in: that never happens.
C1_Terminates == ~looping

\* C2: within a parse call the cursor stays or advances by exactly one in
\* every step and never decreases; a list or quote context, which ends only
\* by rejecting a line, is popped with the cursor unchanged, one context at a
\* time, leaving the loop running on the same line for the enclosing context
\* (or the top-level matcher); a headline, rule or fence ends on its own
\* last line, consumed once; a step that pushes a context consumes nothing.
C2_Step ==
    (pc = "loop") =>
        /\ lineno' \in {lineno, lineno + 1}
        /\ (lineno < Len(lines) /\ Len(ccontexts') < Depth) =>
              /\ Len(ccontexts') = Depth - 1
              /\ pc' = "loop"
              /\ IF ccontexts[Depth].type \in {"UList", "OList", "Quote"}
                 THEN lineno' = lineno /\ lines' = lines
                 ELSE lineno' = lineno + 1
        /\ (Len(ccontexts') > Depth) => (lineno' = lineno /\ Len(ccontexts') = Depth + 1)
        /\ (pc' = "raised") => lineno' = lineno

\* C2: every step of a parse call satisfies C2_Step: no line is dropped and
\* none is consumed twice.
C2_NoDropNoDouble == [][C2_Step]_vars

\* C2 witness: a quote at top level has just rejected a line: it is closed,
\* its block is out, and the line it rejected is still the current line.
C2_Witness ==
    /\ pc = "loop"
    /\ lineno < Len(lines)
    /\ ccontexts = <<>>
    /\ seen = {<< <<"Quote", 0>> >>}
    /\ blocks # <<>>
    /\ blocks[Len(blocks)].type = "quote"

\* C3: at the end of the input every open context is popped, deepest first
\* and one per step, each handing exactly one block to its parent (the
\* outermost to the top-level sequence); no exception is raised, and parse
\* returns only with an empty stack.
C3_Step ==
    /\ (AtEnd /\ ccontexts # <<>>) =>
          /\ PopsOneAndDelivers
          /\ pc' = "loop"
          /\ exc' = NoExc
          /\ ndrain' = ndrain + 1
    /\ (pc' = "done") => (ccontexts' = <<>> /\ exc' = NoExc /\ blocks' = blocks)

\* C3: every step satisfies C3_Step: the drain closes each open context
\* exactly once and parse returns with an empty stack.
C3_Drain == [][C3_Step]_vars

\* C3 witness: parse has returned after the drain closed nested contexts.
C3_Witness == pc = "done" /\ ndrain >= 2 /\ ccontexts = <<>>

\* C4 (as claimed): when parse starts handling its first line the cursor is 0
\* and the context stack is empty, whatever earlier calls did.
C4_FreshCall == (pc = "loop" /\ iter = 0) => (lineno = 0 /\ ccontexts = <<>>)

\* The current line, less the indentation of the context on top, does not
\* start with the quote marker.
EndsQuote == ~StartsWith(Drop(CurLine, ccontexts[Depth].indent), <<">">>)

\* C5 (as claimed): in a Quote context at any indentation a line that does
\* not continue the quote ends it: the context is popped, one quote block
\* goes to the parent, the cursor stays and the loop goes on with the same
\* line.
C5_Step ==
    (OnTop("Quote") /\ EndsQuote) =>
        /\ PopsOneAndDelivers
        /\ lineno' = lineno
        /\ pc' = "loop"

\* C5 (as claimed): every step satisfies C5_Step: a line that does not
\* continue the quote ends it without being consumed.
C5_QuoteEnds == [][C5_Step]_vars

\* The line does not carry the indentation of the context on top: it is
\* shorter, or one of its first indent columns is not a space.
LacksIndent ==
    \/ Len(CurLine) < ccontexts[Depth].indent
    \/ \E i \in 1..Min(ccontexts[Depth].indent, Len(CurLine)) : CurLine[i] # " "

\* C6: inside an open fence nested in a list item, a line that does not
\* carry the indentation makes parse raise "Invalid indent": nothing is
\* appended to the code text, the cursor and the blocks stay, and the call
\* does not return a block sequence.
C6_Step ==
    /\ (OnTop("Code") /\ ccontexts[Depth].inside /\ ccontexts[Depth].indent > 0
            /\ LacksIndent) =>
          /\ pc' = "raised"
          /\ exc' = InvalidIndent
          /\ ccontexts' = ccontexts
          /\ blocks' = blocks
          /\ lineno' = lineno
    /\ (pc = "raised") => (pc' # "done")

\* C6: every step satisfies C6_Step: a line without the indentation inside a
\* nested open fence aborts the call.
C6_FenceIndentError == [][C6_Step]_vars

\* C6 witness: the call was aborted by a line inside a nested, open fence.
C6_Witness ==
    /\ pc = "raised"
    /\ exc = InvalidIndent
    /\ ccontexts # <<>>
    /\ ccontexts[Depth].type = "Code"
    /\ ccontexts[Depth].inside
    /\ ccontexts[Depth].indent > 0

\* The blocks the claim expects of a text of ordered marker lines at the left
\* margin: `open` is the number of items of the list being read (0: none),
\* acc the blocks so far with the open list last.
OrdItem(n) == ListItem(<<Paragraph(<<Letter(n)>>)>>)

OrdBlock(items) == [type |-> "olist", apply_filter |-> TRUE, elements |-> items]

RECURSIVE OrdExpected(_, _, _)
OrdExpected(ords, open, acc) ==
    IF ords = <<>> THEN acc
    ELSE LET n == Head(ords)
         IN IF open > 0 /\ n = open + 1
            THEN OrdExpected(Tail(ords), n,
                    [acc EXCEPT ![Len(acc)] = OrdBlock(Append(@.elements, OrdItem(n)))])
            ELSE IF n = 1
            THEN OrdExpected(Tail(ords), 1, Append(acc, OrdBlock(<<OrdItem(1)>>)))
            ELSE OrdExpected(Tail(ords), 0, Append(acc, Paragraph(OrdLine(n))))

\* C7: for a text of ordered marker lines with the ordinals ords, the lines
\* 1..n in sequence make one olist block of n list items in source order;
\* a line with any other ordinal ends the list unconsumed and is then a
\* paragraph of its own, or the first item of a new list when its ordinal
\* is 1.
C7_Ordinals ==
    (pc = "done" /\ \A i \in 1..Len(lines) : \E n \in 1..MaxLines : lines[i] = OrdLine(n)) =>
        blocks = OrdExpected([i \in 1..Len(lines) |->
                                CHOOSE n \in 1..MaxLines : lines[i] = OrdLine(n)], 0, <<>>)

\* C7 witness: the text "1. ", "2. ", ... of MaxLines lines has been parsed
\* into one list.
C7_Witness ==
    /\ pc = "done"
    /\ lines = [i \in 1..MaxLines |-> OrdLine(i)]
    /\ Len(blocks) = 1
    /\ Len(blocks[1].elements) = MaxLines

\* ------------------------------------------------------------------------
\* Claims about ContentsParser.parse
\* ------------------------------------------------------------------------
Inputs == 1..Len(ast)

IsHeadline(i) == ast[i].type = "headline"

\* The number of headlines among the first i blocks of ast
HeadlinesUpTo(i) == Cardinality({j \in 1..i : IsHeadline(j)})

\* The heading-tree node made for the headline ast[i]: parse allocates one
\* object per headline, in document order, after the objects of ast.
NodeOf(i) == Len(ast) + HeadlinesUpTo(i)

\* Every object a heading tree refers to: the roots, the ancestor stack,
\* `last`, the list `peeks` belongs to, and every children list.
TreeRefs ==
    {toc.roots[k] : k \in 1..Len(toc.roots)}
        \cup {toc.s[k] : k \in 1..Len(toc.s)}
        \cup ({toc.last, toc.peeks} \ {0})
        \cup UNION {{heap[n].children[k] : k \in 1..Len(heap[n].children)} :
                        n \in {m \in 1..Len(heap) : HasAttr(heap[m], "children")}}

ParentOf(i) ==
    LET above == {j \in 1..(i - 1) : IsHeadline(j) /\ ast[j].hcnt < ast[i].hcnt}
    IN IF above = {} THEN 0 ELSE CHOOSE j \in above : \A k \in above : k <= j

\* The elements of a set of numbers in increasing order
RECURSIVE Ascending(_)
Ascending(S) ==
    IF S = {} THEN <<>>
    ELSE LET m == CHOOSE x \in S : \A y \in S : x <= y
         IN <<m>> \o Ascending(S \ {m})

ChildrenOf(p) == IF p = 0 THEN toc.roots ELSE heap[NodeOf(p)].children

Levels == [i \in Inputs |-> IF IsHeadline(i) THEN ast[i].hcnt ELSE 0]

\* C9: in the returned forest the children of every headline, and the
\* roots, are exactly the nodes of the headlines whose nearest preceding
\* headline of strictly smaller level it is (of those that have none), in
\* document order, each node carrying the text and level of its headline; for
\* the levels 1,2,2,1,3 that is two roots, the first with two level-2
\* children, the second with one level-3 child.
C9_Forest ==
    (tpc = "done") =>
        /\ \A p \in {0} \cup {i \in Inputs : IsHeadline(i)} :
              ChildrenOf(p) =
                [k \in 1..Cardinality({i \in Inputs : IsHeadline(i) /\ ParentOf(i) = p}) |->
                    NodeOf(Ascending({i \in Inputs : IsHeadline(i) /\ ParentOf(i) = p})[k])]
        /\ \A i \in Inputs : IsHeadline(i) =>
              /\ heap[NodeOf(i)].text = ast[i].text
              /\ heap[NodeOf(i)].hcnt = ast[i].hcnt
        /\ (Levels = <<1, 2, 2, 1, 3>>) =>
              /\ Len(toc.roots) = 2
              /\ Len(heap[toc.roots[1]].children) = 2
              /\ \A k \in 1..2 : heap[heap[toc.roots[1]].children[k]].hcnt = 2
              /\ Len(heap[toc.roots[2]].children) = 1
              /\ heap[heap[toc.roots[2]].children[1]].hcnt = 3

\* C9 witness: parse has returned for headlines that go down two levels and
\* come back up to a level between.
C9_Witness ==
    /\ tpc = "done"
    /\ \E i \in Inputs : \E j \in Inputs : \E k \in Inputs :
          /\ i < j /\ j < k
          /\ IsHeadline(i) /\ IsHeadline(j) /\ IsHeadline(k)
          /\ ParentOf(j) = i
          /\ ParentOf(k) = i
          /\ ast[k].hcnt < ast[j].hcnt

\* C10: the k-th headline of the sequence gets the anchor k: its node
\* carries it and render_headline emits it for the headline block itself;
\* the blocks that are not headlines get none and use none up.
C10_Anchors ==
    /\ \A i \in Inputs : (i <= ti) =>
          IF IsHeadline(i)
          THEN /\ heap[NodeOf(i)].anchor = HeadlinesUpTo(i)
               /\ HeadlineName(heap[i]) = <<heap[NodeOf(i)].anchor>>
          ELSE ~HasAttr(heap[i], "anchor")
    /\ (tpc # "idle") => toc.cnt = HeadlinesUpTo(ti) + 1

\* C10 witness: parse has returned for a sequence with a block that is no
\* headline between two headlines.
C10_Witness ==
    /\ tpc = "done"
    /\ \E i \in Inputs : \E j \in Inputs : \E k \in Inputs :
          /\ i < j /\ j < k
          /\ IsHeadline(i) /\ ~IsHeadline(j) /\ IsHeadline(k)

\* ------------------------------------------------------------------------
\* Claims about the single constructs and their rendering
\* ------------------------------------------------------------------------
\* Every Block inside a sequence of elements, at any depth
RECURSIVE BlocksIn(_)
BlocksIn(es) ==
    UNION {IF IsBlock(es[i])
           THEN {es[i]} \cup (IF HasAttr(es[i], "elements") THEN BlocksIn(es[i].elements)
                              ELSE {})
           ELSE {} : i \in 1..Len(es)}

\* Every Block that exists in the state: those of the top-level sequence and
\* those the open contexts hold.
Emitted ==
    BlocksIn(blocks)
        \cup UNION {BlocksIn(ccontexts[i].elements) : i \in 1..Depth}
        \cup UNION {BlocksIn(ccontexts[i].li_eles) :
                        i \in {j \in 1..Depth : HasAttr(ccontexts[j], "li_eles")}}

\* A line whose content starts with the fence marker
IsFenceLine(l) == StartsWith(LStripChars(l, {" "}), Fence)

\* The current line less the indentation of the context on top
Inner == Drop(CurLine, ccontexts[Depth].indent)

\* C11, the steps: inside an open fence no context is pushed, whatever the
\* line looks like; a line that is no fence line and carries the fence's
\* indentation is appended to the code text, less the indentation, and
\* consumed, and nothing else changes.
C11_Step ==
    (OnTop("Code") /\ ccontexts[Depth].inside) =>
        /\ Len(ccontexts') <= Depth
        /\ (~LacksIndent /\ ~IsFenceLine(Inner)) =>
              /\ ccontexts' = [ccontexts EXCEPT ![Depth].elements = Append(@, PyStr(Inner))]
              /\ blocks' = blocks
              /\ lineno' = lineno + 1
              /\ pc' = "loop"

\* The lines of a text that opens a fence in its first line up to the line
\* that closes it (all of them when none does), and those lines as one text.
FenceEnd ==
    IF \E k \in 2..Len(lines) : IsFenceLine(lines[k])
    THEN CHOOSE k \in 2..Len(lines) :
            IsFenceLine(lines[k]) /\ \A j \in 2..(k - 1) : ~IsFenceLine(lines[j])
    ELSE Len(lines) + 1

RECURSIVE Verbatim(_, _)
Verbatim(from, to) ==
    IF from > to THEN <<>>
    ELSE IF from = to THEN RStrip(lines[from])
    ELSE RStrip(lines[from]) \o <<"\n">> \o Verbatim(from + 1, to)

FenceText == Verbatim(2, FenceEnd - 1)

FenceHtml ==
    <<"<pre><code class=\"hljs ">> \o Drop(lines[1], 3) \o <<"\">">> \o FenceText
        \o <<"</code></pre>">>

\* C11, the result: a text whose first line opens a fence gives as its first
\* block a code block with apply_filter false whose text is the lines up to
\* the closing fence line, headline, list, quote and emphasis lines among
\* them, and the rendering starts with that text, unfiltered, inside the
\* code element; when the text ends with the fence that is the only block.
\* No code block anywhere has apply_filter true.
C11_Result ==
    /\ (rpc = "rendered" /\ StartsWith(lines[1], Fence)) =>
          /\ blocks[1] = [type |-> "code", apply_filter |-> FALSE,
                          text |-> FenceText, lang |-> Drop(lines[1], 3)]
          /\ Len(html) >= Len(FenceHtml)
          /\ SubSeq(html, 1, Len(FenceHtml)) = FenceHtml
          /\ (FenceEnd >= Len(lines)) => (Len(blocks) = 1 /\ html = FenceHtml)
    /\ \A b \in Emitted : (b.type = "code") => ~b.apply_filter

\* C11: while a fence is open every line that is no fence line goes to the
\* code text and to no other context type; the code block is not filtered
\* when rendered.
C11_FenceVerbatim == [][C11_Step]_vars /\ []C11_Result

\* C11 witness: a fence with a language tag around a line with emphasis has
\* been parsed and rendered.
C11_Witness ==
    /\ rpc = "rendered"
    /\ lines = <<FenceLang, BoldLine, Fence>>
    /\ Len(blocks) = 1
    /\ blocks[1].text = BoldLine
    /\ html = <<"<pre><code class=\"hljs ", "p", "y", "\">">> \o BoldLine \o <<"</code></pre>">>

\* ------------------------------------------------------------------------
\* Claims about HtmlRenderer.filter
\* ------------------------------------------------------------------------
EmOpen == "<span class=\"em\">"

ItaOpen == "<span class=\"ita\">"

SpanClose == "</span>"

\* The positions of the asterisks of the text given to filter
Stars == {i \in 1..Len(ftext) : ftext[i] = "*"}

\* The asterisks that are not the first two or the last two characters
InnerStars == Stars \ {1, 2, Len(ftext) - 1, Len(ftext)}

\* The text is "**" X "*" Y "*" Z "**" with X, Y, Z free of asterisks and
\* Y not empty: a double-asterisk pair around a single-asterisk pair.
PairInPair ==
    /\ Cardinality(Stars) = 6
    /\ {1, 2, Len(ftext) - 1, Len(ftext)} \subseteq Stars
    /\ \E p \in InnerStars : \E q \in InnerStars : q > p + 1

InnerOpen == CHOOSE p \in InnerStars : \A q \in InnerStars : p <= q

InnerClose == CHOOSE q \in InnerStars : \A p \in InnerStars : p <= q

\* The text is "*" X "**" Y "*" with X, Y free of asterisks and not empty:
\* two single-asterisk pairs side by side.
TwoPairs ==
    /\ Cardinality(Stars) = 4
    /\ {1, Len(ftext)} \subseteq Stars
    /\ \E p \in 3..(Len(ftext) - 3) : Stars = {1, p, p + 1, Len(ftext)}

SecondOpen == CHOOSE p \in 3..(Len(ftext) - 3) : Stars = {1, p, p + 1, Len(ftext)}

\* C12: filter applies the rules in list order, each to all its matches:
\* of a double-asterisk pair around a single-asterisk pair the outer becomes
\* the em span first, while the inner asterisks are still in the text, and
\* the inner then the ita span inside it ("**a*b*c**" gives the em span
\* around a, the ita span around b, c); two single-asterisk pairs side by
\* side both become ita spans; the image markup is taken by the image rule
\* before the link rule sees it.
C12_FilterOrder ==
    /\ (rpc = "filter" /\ fi = 4 /\ PairInPair) =>
          /\ data[1] = EmOpen
          /\ \A i \in 1..Len(data) : data[i] # ItaOpen
          /\ \E i \in 1..Len(data) : data[i] = "*"
    /\ (rpc = "filtered" /\ PairInPair) =>
          data = <<EmOpen>> \o SubSeq(ftext, 3, InnerOpen - 1)
                    \o <<ItaOpen>> \o SubSeq(ftext, InnerOpen + 1, InnerClose - 1)
                    \o <<SpanClose>> \o SubSeq(ftext, InnerClose + 1, Len(ftext) - 2)
                    \o <<SpanClose>>
    /\ (rpc = "filtered" /\ ftext = <<"*", "*", "a", "*", "b", "*", "c", "*", "*">>) =>
          data = <<EmOpen, "a", ItaOpen, "b", SpanClose, "c", SpanClose>>
    /\ (rpc = "filtered" /\ TwoPairs) =>
          data = <<ItaOpen>> \o SubSeq(ftext, 2, SecondOpen - 1) \o <<SpanClose>>
                    \o <<ItaOpen>> \o SubSeq(ftext, SecondOpen + 2, Len(ftext) - 1)
                    \o <<SpanClose>>
    /\ (rpc = "filtered" /\ ftext = ImgText) =>
          data = <<"<img alt=\"", "a", "\" src=\"", "b", "\" />">>

\* C12 witness: filter has returned for "**a*b*c**".
C12_Witness ==
    /\ rpc = "filtered"
    /\ ftext = <<"*", "*", "a", "*", "b", "*", "c", "*", "*">>
    /\ PairInPair
    /\ data = <<EmOpen, "a", ItaOpen, "b", SpanClose, "c", SpanClose>>

\* ------------------------------------------------------------------------
\* Claims about the headline and the list contexts
\* ------------------------------------------------------------------------
\* The length of the run of '#' a line starts with
RunLen(l) ==
    CHOOSE n \in 0..Len(l) :
        /\ \A i \in 1..n : l[i] = "#"
        /\ n = Len(l) \/ l[n + 1] # "#"

\* The block the claim expects of a line that starts with '#', trailing
\* blanks removed.
HashBlock(l) ==
    IF Len(l) <= MaxHeadlineLen
    THEN [type |-> "headline", apply_filter |-> TRUE,
          text |-> Strip(SubSeq(l, RunLen(l) + 1, Len(l))), hcnt |-> RunLen(l)]
    ELSE Paragraph(l)

\* C13, the steps: with no context open, a line that starts with '#' and is
\* at most 70 characters long without its trailing blanks opens a Headline
\* context and nothing else; that context ends in its first step, which
\* consumes the line and puts out one headline block with the length of the
\* '#' run as its level; a longer line is consumed as a paragraph.
C13_Step ==
    /\ (InLoop /\ ccontexts = <<>> /\ StartsWith(CurLine, <<"#">>)) =>
          IF Len(CurLine) <= MaxHeadlineLen
          THEN /\ Len(ccontexts') = 1
               /\ ccontexts'[1].type = "Headline"
               /\ lineno' = lineno
               /\ blocks' = blocks
          ELSE /\ ccontexts' = <<>>
               /\ lineno' = lineno + 1
               /\ blocks' = Append(blocks, Paragraph(CurLine))
    /\ OnTop("Headline") =>
          /\ Depth = 1
          /\ Len(CurLine) <= MaxHeadlineLen
          /\ ccontexts' = <<>>
          /\ lineno' = lineno + 1
          /\ blocks' = Append(blocks, HashBlock(CurLine))
          /\ blocks'[Len(blocks')].hcnt = RunLen(CurLine)

\* C13, the result: a text of lines that all start with '#' gives one block
\* per line, a headline for the lines of at most 70 characters and a
\* paragraph for the others.
C13_Result ==
    (pc = "done" /\ \A i \in 1..Len(lines) : StartsWith(lines[i], <<"#">>)) =>
        blocks = [i \in 1..Len(lines) |-> HashBlock(RStrip(lines[i]))]

\* C13: a line at the left margin that starts with '#' is a headline exactly
\* when it has at most 70 characters.
C13_HeadlineLimit == [][C13_Step]_vars /\ []C13_Result

\* C13 witness: a line of 70 characters followed by a blank, a line of 70 and
\* a line of 71 characters have been parsed into two headlines and a
\* paragraph.
C13_Witness ==
    /\ pc = "done"
    /\ lines = <<HashLine(2, MaxHeadlineLen) \o <<" ">>, HashLine(1, MaxHeadlineLen),
                 HashLine(1, MaxHeadlineLen + 1)>>
    /\ Len(blocks) = 3
    /\ blocks[1].type = "headline" /\ blocks[1].hcnt = 2
    /\ blocks[2].type = "headline" /\ blocks[2].hcnt = 1
    /\ blocks[3].type = "paragraph"

\* The marker a list context expects next, and its width as the handler
\* takes it.
Marker(c) == IF c.type = "UList" THEN <<"-", " ">> ELSE Expect(c)

MarkerWidth(c) == IF c.type = "UList" THEN UMarkerWidth ELSE Len(Expect(c))

OnList == InLoop /\ ccontexts # <<>> /\ ccontexts[Depth].type \in {"UList", "OList"}

\* The current line carries the indentation of the list on top.
InList == ccontexts[Depth].indent = 0 \/ IsSpace(Take(CurLine, ccontexts[Depth].indent))

\* The current line is a marker line of the list on top.
IsMarkerLine == InList /\ StartsWith(Inner, Marker(ccontexts[Depth]))

\* The current line is a continuation line of the list on top: no marker
\* line, and indented by the marker width beyond the list's indentation.
IsContinuation ==
    /\ InList
    /\ ~StartsWith(Inner, Marker(ccontexts[Depth]))
    /\ IsSpace(Take(Inner, MarkerWidth(ccontexts[Depth])))

\* The remainder of a continuation line that the handler offers to the
\* registered context types.
Remainder ==
    IF ccontexts[Depth].type = "UList"
    THEN RStripChars(LStripChars(Inner, {" "}), {" "})
    ELSE Drop(Inner, MarkerWidth(ccontexts[Depth]))

\* C14 (as claimed): when a list context handles a continuation line whose
\* remainder a registered type matches, be it Headline, HLine, Code, UList,
\* OList or Quote, a context of that type is pushed with the list's indent
\* plus the marker width, the stack below it and the cursor stay, and the
\* loop goes on with that line.
C14_Step ==
    (OnList /\ IsContinuation /\ FirstMatch(Remainder) # 0) =>
        /\ pc' = "loop"
        /\ lineno' = lineno
        /\ Len(ccontexts') = Depth + 1
        /\ SubSeq(ccontexts', 1, Depth) = ccontexts
        /\ ccontexts'[Depth + 1].type = Contexts[FirstMatch(Remainder)]
        /\ ccontexts'[Depth + 1].indent =
                ccontexts[Depth].indent + MarkerWidth(ccontexts[Depth])

\* C14 (as claimed): every step satisfies C14_Step: a list nests a context
\* of any registered type that matches the continuation line.
C14_NestsAnyType == [][C14_Step]_vars

\* C15 (as claimed): when a list context accepts a marker line, the line is
\* consumed and the new list item starts with the paragraph of the text
\* behind the marker, trailing blanks removed and nothing else: "- -5 x"
\* gives "-5 x", "1. 1.5 l" gives "1.5 l".
C15_Step ==
    (OnList /\ IsMarkerLine) =>
        /\ lineno' = lineno + 1
        /\ Len(ccontexts') = Depth
        /\ ccontexts'[Depth].li_eles =
              <<Paragraph(RStrip(Drop(Inner, Len(Marker(ccontexts[Depth])))))>>

\* C15 (as claimed): every step satisfies C15_Step: the text of a list item
\* is the line behind its marker.
C15_ItemText == [][C15_Step]_vars

\* The list item a list context has pending, as the list of items on_exit
\* adds when it is called once.
Pending(c) == IF c.li_eles # <<>> THEN <<ListItem(c.li_eles)>> ELSE <<>>

\* The one block expected of the context on top when it is popped in this
\* step: built after its pending state was flushed, once.
BlockOfTop ==
    CASE ccontexts[Depth].type \in {"UList", "OList"} ->
            [type |-> BlockTypeOf(ccontexts[Depth].type), apply_filter |-> TRUE,
             elements |-> ccontexts[Depth].elements \o Pending(ccontexts[Depth])]
      [] ccontexts[Depth].type = "Quote" ->
            [type |-> "quote", apply_filter |-> TRUE, elements |-> ccontexts[Depth].elements]
      [] ccontexts[Depth].type = "Code" ->
            [type |-> "code", apply_filter |-> FALSE,
             text |-> JoinLines(ccontexts[Depth].elements), lang |-> ccontexts[Depth].lang]
      [] ccontexts[Depth].type = "Headline" -> HashBlock(CurLine)
      [] OTHER -> [type |-> "hline", apply_filter |-> TRUE]

\* The block of the popped top goes to exactly one receiver, once: the item
\* buffer of the new top, or the top-level sequence when the stack is now
\* empty; every other context and the other container stay as they are.
DeliversOnce ==
    /\ \A i \in 1..(Depth - 2) : ccontexts'[i] = ccontexts[i]
    /\ IF Depth > 1
       THEN /\ blocks' = blocks
            /\ ccontexts'[Depth - 1] =
                    [ccontexts[Depth - 1] EXCEPT !.li_eles = Append(@, BlockOfTop)]
       ELSE blocks' = Append(blocks, BlockOfTop)

\* C16, one step: the stack changes by one push or one pop of its top, or
\* not in depth; a push leaves the open contexts as they are; a pop, be it
\* signalled by handle or made by the drain, delivers the one block of the
\* popped context, flushed once before it was created, to one receiver; no
\* context leaves the stack any other way, and parse returns only when every
\* context has been popped.
C16_Step ==
    /\ Len(ccontexts') \in {Depth - 1, Depth, Depth + 1}
    /\ (Len(ccontexts') = Depth + 1) => SubSeq(ccontexts', 1, Depth) = ccontexts
    /\ (Len(ccontexts') = Depth - 1) => DeliversOnce
    /\ (Len(ccontexts') = Depth) =>
          /\ \A i \in 1..(Depth - 1) : ccontexts'[i] = ccontexts[i]
          /\ Depth > 0 => (ccontexts'[Depth].type = ccontexts[Depth].type /\ blocks' = blocks)
    /\ (pc' = "done") => ccontexts' = <<>>

\* C16: every step satisfies C16_Step: a context that was pushed is popped
\* once, flushed and then turned into one block that one receiver gets.
C16_Lifecycle == [][C16_Step]_vars

\* C16 witness: parse has returned a list whose first item holds, behind its
\* paragraph, the block of a nested context, and the drain has popped the
\* list with its last item pending.
C16_Witness ==
    /\ pc = "done"
    /\ ndrain >= 1
    /\ Len(blocks) = 1
    /\ blocks[1].type \in {"ulist", "olist"}
    /\ Len(blocks[1].elements) >= 2
    /\ Len(blocks[1].elements[1].elements) = 2
    /\ blocks[1].elements[1].elements[2].type \in {"ulist", "olist", "quote", "code"}

\* The list contexts open before and after the step (a step pushes or pops
\* at the top only, so position i holds the same context in both states).
OpenLists ==
    {i \in 1..Min(Depth, Len(ccontexts')) : ccontexts[i].type \in {"UList", "OList"}}

\* C17 (as claimed), one step of an open list context: an accepted marker
\* line closes the pending item into elements and opens the next item with
\* its paragraph; nothing else adds to elements, and whatever else the list
\* takes in, a continuation paragraph or the block of a nested context, is
\* added to the item the last marker line opened, so that on exit the
\* elements are list items, one per accepted marker line, in marker order.
C17_Step ==
    \A i \in OpenLists :
        IF i = Depth /\ InLoop /\ IsMarkerLine
        THEN /\ ccontexts'[i].elements = ccontexts[i].elements \o Pending(ccontexts[i])
             /\ Len(ccontexts'[i].li_eles) = 1
             /\ ccontexts'[i].li_eles[1].type = "paragraph"
        ELSE /\ ccontexts'[i].elements = ccontexts[i].elements
             /\ (ccontexts'[i].li_eles # ccontexts[i].li_eles) =>
                   /\ ccontexts[i].li_eles # <<>>
                   /\ Len(ccontexts'[i].li_eles) = Len(ccontexts[i].li_eles) + 1
                   /\ SubSeq(ccontexts'[i].li_eles, 1, Len(ccontexts[i].li_eles))
                        = ccontexts[i].li_eles

\* C17 (as claimed): every step satisfies C17_Step, and every list block
\* there is holds list items only, each starting with the paragraph of its
\* marker line.
C17_ItemPerMarker ==
    /\ [][C17_Step]_vars
    /\ [](\A b \in Emitted : (b.type \in {"ulist", "olist"}) =>
            \A k \in 1..Len(b.elements) :
                /\ b.elements[k].type = "listitem"
                /\ b.elements[k].elements # <<>>
                /\ b.elements[k].elements[1].type = "paragraph")

\* The context has taken no line yet.
Fresh(c) ==
    CASE c.type \in {"UList", "OList"} -> c.elements = <<>> /\ c.li_eles = <<>>
      [] c.type = "Quote" -> c.elements = <<>>
      [] c.type = "Code" -> ~c.inside /\ c.elements = <<>>
      [] OTHER -> TRUE

\* C18 (as claimed), one step: the first line a context is handed after it
\* was pushed, the line it was created for, is accepted by it: the step
\* consumes the line.
C18_Step ==
    (InLoop /\ ccontexts # <<>> /\ Fresh(ccontexts[Depth])) =>
        (pc' = "loop" /\ lineno' = lineno + 1)

\* C18 (as claimed): every step satisfies C18_Step, and no list or quote
\* block with an empty elements sequence exists anywhere.
C18_NoEmptyBlock ==
    /\ [][C18_Step]_vars
    /\ [](\A b \in Emitted : (b.type \in {"ulist", "olist", "quote"}) => b.elements # <<>>)

\* ------------------------------------------------------------------------
\* Claims about repeated calls and the shape of the stack
\* ------------------------------------------------------------------------
\* One iteration of the main loop as a function of the parser: handle of
\* the parser with no context open, of the context on top otherwise.
Iterate(p, line) ==
    IF p.ccontexts = <<>> THEN ParserHandle(p, line)
    ELSE CASE Top(p).type = "Headline" -> HeadlineHandle(p, line)
           [] Top(p).type = "HLine" -> HLineHandle(p, line)
           [] Top(p).type = "Code" -> CodeHandle(p, line)
           [] Top(p).type = "UList" -> UListHandle(p, line)
           [] Top(p).type = "OList" -> OListHandle(p, line)
           [] OTHER -> QuoteHandle(p, line)

\* The two loops of Parser.parse as a function, for the lines of a text on
\* which parse returns or raises.
RECURSIVE Run(_, _)
Run(p, ls) ==
    IF p.exc # NoExc THEN p
    ELSE IF p.lineno < Len(ls) THEN Run(Iterate(p, RStrip(ls[p.lineno + 1])), ls)
    ELSE IF p.ccontexts # <<>> THEN Run(ContextExit(p), ls)
    ELSE p

\* Parser().parse(src) for the text with the lines ls: the blocks a freshly
\* constructed parser returns.
FreshParse(ls) ==
    Run([ccontexts |-> <<>>, lineno |-> 0, blocks |-> <<>>, exc |-> NoExc], ls).blocks

\* C19 (as claimed): the sequence the second parse call on a Parser
\* returns is the sequence a freshly constructed Parser returns for the
\* second text.
C19_SameAsFresh == (pc = "done" /\ todo = <<>>) => blocks = FreshParse(lines)

\* The columns a context nested in the list context c is indented beyond c:
\* 2 in an unordered list, the length of the marker expected next, the
\* digits of the ordinal and ". ", in an ordered one.
NestStep(c) == IF c.type = "UList" THEN 2 ELSE Len(Str(c.cnt)) + 2

\* C20: every context below the top of the stack is a list context; the
\* bottom context, pushed at top level, has indent 0 if it has an indent;
\* the indent of a context above a list is the indent of the list plus 2
\* (unordered) or plus the length of the marker the list expects, which is
\* at least 3 (ordered), so the indents strictly increase from the bottom to
\* the top.
C20_StackShape ==
    /\ \A i \in 1..(Depth - 1) : ccontexts[i].type \in {"UList", "OList"}
    /\ (Depth > 0 /\ HasAttr(ccontexts[1], "indent")) => ccontexts[1].indent = 0
    /\ \A i \in 1..(Depth - 1) :
          /\ (ccontexts[i].type = "OList") => NestStep(ccontexts[i]) >= 3
          /\ HasAttr(ccontexts[i + 1], "indent") =>
                /\ ccontexts[i + 1].indent = ccontexts[i].indent + NestStep(ccontexts[i])
                /\ ccontexts[i + 1].indent > ccontexts[i].indent

\* C20 witness: a context is open inside an ordered list that has taken two
\* items, indented by the length of the marker "3. ".
C20_Witness ==
    /\ pc = "loop"
    /\ Depth = 2
    /\ ccontexts[1].type = "OList"
    /\ ccontexts[1].cnt = 3
    /\ ccontexts[2].indent = 3

====
